---- MODULE Spec2Model ----
(***************************************************************************)
(* A model of the memguar crate: MappedBuffer (src/file/mapper.rs), Locker *)
(* (src/wrappers/locker.rs), Adviser (src/wrappers/advisor.rs) and the two *)
(* From<c_int> error conversions.                                          *)
(*                                                                         *)
(* Memory is modelled at byte level: an element of T is its object         *)
(* representation, a sequence of size_of::<T>() bytes.  Addresses are      *)
(* scaled down: the addresses mmap can return are the multiples of a page  *)
(* of 4 bytes, and the over-aligned element type has alignment 8 (in the   *)
(* crate: a #[repr(align(N))] type with N above the page size).            *)
(***************************************************************************)
EXTENDS Integers, Sequences, FiniteSets, TLC

VARIABLES
    mpc,        \* MappedBuffer::new's outcome: "start", "ok", "err", "panic", "dropped"
    minput,     \* the call's input: [T, data], or None before the call
    mfail,      \* the OS step that failed in new: "none", "tempfile", "set_len", "mmap"
    mb,         \* the MappedBuffer struct: [ptr, size], or None
    mem,        \* the bytes of the mapped range
    files,      \* temporary files created
    mmapLog,    \* the mmap calls: [len, ret]
    munmapLog,  \* the munmap calls: [ptr, len]
    view,       \* receive(): [called, slice]
    pmsg,       \* the panic's message, "" when there is none
    lpc,        \* Locker: "start", "alive", "dropped", "panic"
    lbuf,       \* Locker.buf: [ptr, len, tsize], or None
    lockLog,    \* the mlock/munlock calls: [call, ptr, len, ret, errno, by, result]
    apc,        \* Adviser: "start", "alive", "dropped", "panic"
    abuf,       \* Adviser.buf: [ptr, len, tsize], or None
    adviseLog,  \* the posix_madvise calls: [advice, ptr, len, ret, by, result]
    conv        \* the last error-code conversion: [code, lock, advise], or None

mvars == <<mpc, minput, mfail, mb, mem, files, mmapLog, munmapLog, view, pmsg>>
lvars == <<lpc, lbuf, lockLog>>
avars == <<apc, abuf, adviseLog>>
vars == <<mvars, lvars, avars, conv>>

None == [none |-> TRUE]

\* ---------------------------------------------------------------- bounds
MaxLen == 2        \* longest input sequence
MaxCalls == 2      \* explicit lock/unlock (or syscall_advise) calls per guard
CodeSpan == 60     \* raw codes range over -CodeSpan..CodeSpan and 999

\* ---------------------------------------------------------------- types
\* Element types T: size_of::<T>() and align_of::<T>().  Unit is zero-sized,
\* Over is aligned beyond the page size.
Unit == [size |-> 0, align |-> 1]
U8 == [size |-> 1, align |-> 1]
U16 == [size |-> 2, align |-> 2]
Over == [size |-> 8, align |-> 8]
Types == {Unit, U8, U16, Over}

ByteVals == {0, 1}

\* The values of T: sequences of T.size bytes.
Elems(T) == {[i \in 1..T.size |-> IF i = 1 THEN b1 ELSE b2] : b1 \in ByteVals, b2 \in ByteVals}

RECURSIVE SeqsUpTo(_, _)
SeqsUpTo(S, n) ==
    IF n = 0 THEN {<<>>}
    ELSE LET shorter == SeqsUpTo(S, n - 1)
         IN shorter \cup {Append(s, e) : s \in {t \in shorter : Len(t) = n - 1}, e \in S}

\* The inputs of MappedBuffer::new: an element type and a slice of it.
Inputs == UNION {{[T |-> T, data |-> d] : d \in SeqsUpTo(Elems(T), MaxLen)} : T \in Types}

\* ---------------------------------------------------------------- MappedBuffer
MAP_FAILED == -1

\* The addresses mmap returns: page-aligned, never null.
MapAddrs == {4, 8, 12}

\* size_of_val(buf): the slice's length in bytes.
SizeOfVal_NoScale(T, data) == Len(data)
SizeOfVal(T, data) == Len(data) * T.size

\* assert!(size_of_val(buf) > 0, "Zero size buffer")
AssertNonZero_Off(T, data) == TRUE
AssertNonZero(T, data) == SizeOfVal(T, data) > 0

\* The object representation of a slice: its elements' bytes, in order.
RECURSIVE BytesOf(_)
BytesOf(data) == IF data = <<>> THEN <<>> ELSE Head(data) \o BytesOf(Tail(data))

\* A file extended by set_len reads as zeros.
Zeros(n) == [i \in 1..n |-> 0]

\* mmap(null, len, PROT_READ | PROT_WRITE, MAP_SHARED, fd, 0): the OS refuses a
\* length of 0, and may refuse any other request.
MmapOutcomes(len) == IF len = 0 THEN {MAP_FAILED} ELSE {MAP_FAILED} \cup MapAddrs

\* ptr.cast::<T>().is_aligned()
IsAligned(ptr, T) == ptr % T.align = 0

\* ptr::copy_nonoverlapping(buf.as_ptr(), ptr.cast(), buf.len()): buf.len()
\* elements of T, that is buf.len() * size_of::<T>() bytes, from the start.
CopyNonoverlapping(region, T, data) ==
    LET src == BytesOf(data)
    IN [i \in 1..Len(region) |-> IF i <= Len(data) * T.size THEN src[i] ELSE region[i]]

\* The mapped bytes after the match on ptr: copied into only when ptr is aligned.
Fill(region, ptr, T, data) ==
    IF IsAligned(ptr, T) THEN CopyNonoverlapping(region, T, data) ELSE region

NoView == [called |-> FALSE, slice |-> <<>>]

MapperIdle ==
    /\ mpc = "start" /\ minput = None /\ mfail = "none" /\ mb = None /\ mem = <<>>
    /\ files = 0 /\ mmapLog = <<>> /\ munmapLog = <<>> /\ view = NoView /\ pmsg = ""

\* MappedBuffer::new, panicking on the assertion.
NewZeroSize(in) ==
    /\ ~AssertNonZero(in.T, in.data)
    /\ mpc' = "panic" /\ pmsg' = "Zero size buffer"
    /\ UNCHANGED <<mfail, mb, mem, files, mmapLog, munmapLog, view>>

\* tempfile()? returns the error.
NewTempfileErr(in) ==
    /\ AssertNonZero(in.T, in.data)
    /\ mpc' = "err" /\ mfail' = "tempfile"
    /\ UNCHANGED <<mb, mem, files, mmapLog, munmapLog, view, pmsg>>

\* file.set_len(size as u64)? returns the error.
NewSetLenErr(in) ==
    /\ AssertNonZero(in.T, in.data)
    /\ mpc' = "err" /\ mfail' = "set_len" /\ files' = files + 1
    /\ UNCHANGED <<mb, mem, mmapLog, munmapLog, view, pmsg>>

\* The file is created and sized, and mmap is called.
NewMmap(in) ==
    /\ AssertNonZero(in.T, in.data)
    /\ LET size == SizeOfVal(in.T, in.data)
       IN \E ptr \in MmapOutcomes(size) :
            /\ files' = files + 1
            /\ mmapLog' = Append(mmapLog, [len |-> size, ret |-> ptr])
            /\ IF ptr = MAP_FAILED
               THEN /\ mpc' = "panic" /\ pmsg' = "last_os_error" /\ mfail' = "mmap"
                    /\ UNCHANGED <<mb, mem>>
               ELSE /\ mpc' = "ok" /\ mfail' = "none" /\ pmsg' = ""
                    /\ mem' = Fill(Zeros(size), ptr, in.T, in.data)
                    /\ mb' = [ptr |-> ptr, size |-> size]
    /\ UNCHANGED <<munmapLog, view>>

New ==
    /\ mpc = "start"
    /\ \E in \in Inputs :
        /\ minput' = in
        /\ \/ NewZeroSize(in)
           \/ NewTempfileErr(in)
           \/ NewSetLenErr(in)
           \/ NewMmap(in)
    /\ UNCHANGED <<lvars, avars, conv>>

\* The elements slice::from_raw_parts(ptr, n) reads from correctly aligned bytes.
Chunks(bytes, sz, n) == [k \in 1..n |-> [i \in 1..sz |-> bytes[(k - 1) * sz + i]]]

\* receive(): from_raw_parts(self.ptr.cast(), self.size / size_of::<T>()).  The
\* length is fixed by the call; the elements are read from the mapped bytes,
\* and reading through a misaligned pointer is undefined: any elements.
ReceiveLen(T) == mb.size \div T.size

Slices(T) ==
    LET n == ReceiveLen(T)
    IN IF IsAligned(mb.ptr, T)
       THEN {Chunks(mem, T.size, n)}
       ELSE {s \in SeqsUpTo(Elems(T), n) : Len(s) = n}

Receive ==
    /\ mpc = "ok"
    /\ \E s \in Slices(minput.T) : view' = [called |-> TRUE, slice |-> s]
    /\ UNCHANGED <<mpc, minput, mfail, mb, mem, files, mmapLog, munmapLog, pmsg>>
    /\ UNCHANGED <<lvars, avars, conv>>

\* Drop for MappedBuffer: munmap(self.ptr, self.size), its result ignored.
MunmapArgs_Nothing == <<>>
MunmapArgs == <<[ptr |-> mb.ptr, len |-> mb.size]>>

DropMapped ==
    /\ mpc = "ok"
    /\ mpc' = "dropped"
    /\ munmapLog' = munmapLog \o MunmapArgs
    /\ mem' = <<>>
    /\ UNCHANGED <<minput, mfail, mb, files, mmapLog, view, pmsg>>
    /\ UNCHANGED <<lvars, avars, conv>>

NextMapper == New \/ Receive \/ DropMapped

\* ---------------------------------------------------------------- results and error kinds
OkResult == [ok |-> TRUE]
ErrResult(e) == [ok |-> FALSE, err |-> e]

Named(k) == [kind |-> k]
EUNIM(c) == [kind |-> "EUNIM", code |-> c]

\* impl From<c_int> for LockError
LockErrorFrom_Swapped(err) ==
    CASE err = 1 -> Named("EPERM")
      [] err = 4 -> Named("EINTR")
      [] err = 5 -> Named("EIO")
      [] err = 11 -> Named("EAGAIN")
      [] err = 12 -> Named("EFAULT")
      [] err = 14 -> Named("ENOMEM")
      [] err = 16 -> Named("EBUSY")
      [] err = 22 -> Named("EINVAL")
      [] err = 38 -> Named("ENOSYS")
      [] OTHER -> EUNIM(err)
LockErrorFrom(err) ==
    CASE err = 1 -> Named("EPERM")
      [] err = 4 -> Named("EINTR")
      [] err = 5 -> Named("EIO")
      [] err = 11 -> Named("EAGAIN")
      [] err = 12 -> Named("ENOMEM")
      [] err = 14 -> Named("EFAULT")
      [] err = 16 -> Named("EBUSY")
      [] err = 22 -> Named("EINVAL")
      [] err = 38 -> Named("ENOSYS")
      [] OTHER -> EUNIM(err)

\* impl From<c_int> for AdviseError
AdviseErrorFrom(err) ==
    CASE err = 12 -> Named("ENOMEM")
      [] err = 14 -> Named("EFAULT")
      [] err = 22 -> Named("EINVAL")
      [] err = 38 -> Named("ENOSYS")
      [] OTHER -> EUNIM(err)

\* The buffers a guard is built over: [ptr, len, tsize] is buf.as_mut_ptr(),
\* buf.len() and size_of::<T>().
GuardBufs == {[ptr |-> 64, len |-> n, tsize |-> t] : n \in 0..MaxLen, t \in {1, 4}}

\* buf.len() * size_of::<T>()
ByteLen(buf) == buf.len * buf.tsize

UserCalls(log) == Cardinality({i \in 1..Len(log) : log[i].by = "user"})

\* ---------------------------------------------------------------- Locker
\* The error codes mlock and munlock report in errno.
LockErrnos == {1, 11, 12, 14, 22, 38}

\* mlock and munlock return 0, or -1 with the error code in errno.
LockSyscallOutcomes == {[ret |-> 0, errno |-> 0]} \cup {[ret |-> -1, errno |-> e] : e \in LockErrnos}

\* match result { 0 => Ok(()), result => Err(LockError::from(result)) }
LockResult(ret) == IF ret = 0 THEN OkResult ELSE ErrResult(LockErrorFrom(ret))

LockerIdle == lpc = "start" /\ lbuf = None /\ lockLog = <<>>

LockCall(call, by, out) ==
    [call |-> call, ptr |-> lbuf.ptr, len |-> ByteLen(lbuf), ret |-> out.ret,
     errno |-> out.errno, by |-> by, result |-> LockResult(out.ret)]

\* Locker::new
LockerNew ==
    /\ lpc = "start"
    /\ \E b \in GuardBufs : lbuf' = b
    /\ lpc' = "alive"
    /\ UNCHANGED <<lockLog, mvars, avars, conv>>

\* Locker::lock
Lock ==
    /\ lpc = "alive" /\ UserCalls(lockLog) < MaxCalls
    /\ \E out \in LockSyscallOutcomes : lockLog' = Append(lockLog, LockCall("mlock", "user", out))
    /\ UNCHANGED <<lpc, lbuf, mvars, avars, conv>>

\* Locker::unlock
Unlock ==
    /\ lpc = "alive" /\ UserCalls(lockLog) < MaxCalls
    /\ \E out \in LockSyscallOutcomes : lockLog' = Append(lockLog, LockCall("munlock", "user", out))
    /\ UNCHANGED <<lpc, lbuf, mvars, avars, conv>>

\* .expect("Cant unlock while dropping")
Expect_Swallow(result) == "dropped"
Expect(result) == IF result.ok THEN "dropped" ELSE "panic"

\* Drop for Locker: self.unlock().expect(..)
DropLocker ==
    /\ lpc = "alive"
    /\ \E out \in LockSyscallOutcomes :
        LET c == LockCall("munlock", "drop", out)
        IN /\ lockLog' = Append(lockLog, c)
           /\ lpc' = Expect(c.result)
    /\ UNCHANGED <<lbuf, mvars, avars, conv>>

NextLocker == LockerNew \/ Lock \/ Unlock \/ DropLocker

\* ---------------------------------------------------------------- Adviser
WillNeed == 3
DontNeed == 4
Advises == {WillNeed, DontNeed}

\* posix_madvise returns 0, or the error code itself.
AdviseOutcomes == {0, 12, 14, 22, 38}

\* match result { 0 => Ok(()), result => Err(AdviseError::from(result)) }
AdviseResult(ret) == IF ret = 0 THEN OkResult ELSE ErrResult(AdviseErrorFrom(ret))

AdviserIdle == apc = "start" /\ abuf = None /\ adviseLog = <<>>

AdviseCall(advise, by, ret) ==
    [advice |-> advise, ptr |-> abuf.ptr, len |-> ByteLen(abuf), ret |-> ret,
     by |-> by, result |-> AdviseResult(ret)]

\* Adviser::new
AdviserNew ==
    /\ apc = "start"
    /\ \E b \in GuardBufs : abuf' = b
    /\ apc' = "alive"
    /\ UNCHANGED <<adviseLog, mvars, lvars, conv>>

\* Adviser::syscall_advise
SyscallAdvise ==
    /\ apc = "alive" /\ UserCalls(adviseLog) < MaxCalls
    /\ \E advise \in Advises, ret \in AdviseOutcomes :
        adviseLog' = Append(adviseLog, AdviseCall(advise, "user", ret))
    /\ UNCHANGED <<apc, abuf, mvars, lvars, conv>>

\* The hint Drop for Adviser gives.
DropAdvise_Last == IF adviseLog = <<>> THEN DontNeed ELSE adviseLog[Len(adviseLog)].advice
DropAdvise == DontNeed

\* Drop for Adviser: self.syscall_advise(DontNeed).expect(..)
DropAdviser ==
    /\ apc = "alive"
    /\ \E ret \in AdviseOutcomes :
        LET c == AdviseCall(DropAdvise, "drop", ret)
        IN /\ adviseLog' = Append(adviseLog, c)
           /\ apc' = Expect(c.result)
    /\ UNCHANGED <<abuf, mvars, lvars, conv>>

NextAdviser == AdviserNew \/ SyscallAdvise \/ DropAdviser

\* ---------------------------------------------------------------- error conversion
\* The raw codes a conversion is applied to.
Codes == (0 - CodeSpan)..CodeSpan \cup {999}

\* LockError::from(c) and AdviseError::from(c)
FromCode ==
    /\ \E c \in Codes :
        conv' = [code |-> c, lock |-> LockErrorFrom(c), advise |-> AdviseErrorFrom(c)]
    /\ UNCHANGED <<mvars, lvars, avars>>

NextConv == FromCode

\* ---------------------------------------------------------------- specifications
Init == MapperIdle /\ LockerIdle /\ AdviserIdle /\ conv = None

Next ==
    \/ New \/ Receive \/ DropMapped
    \/ LockerNew \/ Lock \/ Unlock \/ DropLocker
    \/ AdviserNew \/ SyscallAdvise \/ DropAdviser
    \/ FromCode

Spec == Init /\ [][Next]_vars

\* The components share no state: each is checked on its own.
SpecMapper == Init /\ [][NextMapper]_vars
SpecLocker == Init /\ [][NextLocker]_vars
SpecAdviser == Init /\ [][NextAdviser]_vars
SpecConv == Init /\ [][NextConv]_vars

\* ---------------------------------------------------------------- claims
\* C1: whenever new returned Ok, the slice receive() returns equals the input
\* data element for element, on the misaligned path too.
RoundTrip == view.called => view.slice = minput.data

\* C2: new on an input of byte size zero fails with the "Zero size buffer"
\* panic, creates no backing file, calls no mmap and yields no MappedBuffer; no
\* MappedBuffer has size 0.
ZeroSizeRejected ==
    /\ (minput # None /\ Len(minput.data) * minput.T.size = 0) =>
        /\ mpc = "panic" /\ pmsg = "Zero size buffer"
        /\ files = 0 /\ mmapLog = <<>> /\ mb = None
    /\ mb # None => mb.size # 0
ZeroSizeRejectedWitness == minput # None /\ minput.data = <<>> /\ minput.T = U16 /\ mpc = "panic"

\* C3: every failure while constructing (tempfile, set_len, mmap) is returned
\* as Err.
ConstructionFailuresAreErr == mfail # "none" => mpc = "err"

\* C4: the munmap calls are exactly the successful mmap calls, with the same
\* pointer and size, once new's result is gone; there is none before that, and
\* none for a mapping that was never made.
Mapped(call) == call.ret # MAP_FAILED
SuccessfulMaps ==
    LET good == SelectSeq(mmapLog, Mapped)
    IN [i \in 1..Len(good) |-> [ptr |-> good[i].ret, len |-> good[i].len]]
MapUnmapMatched ==
    /\ Len(mmapLog) <= 1
    /\ mpc \in {"start", "ok"} => munmapLog = <<>>
    /\ mpc = "ok" => Len(SuccessfulMaps) = 1
    /\ mpc \in {"err", "panic", "dropped"} => munmapLog = SuccessfulMaps
MapUnmapMatchedWitness == mpc = "dropped" /\ Len(munmapLog) = 1 /\ munmapLog[1].len = 4

\* C5: when the mapped pointer is not aligned for T and new returns Ok, the
\* mapped bytes are still the input's bytes.
MisalignedStillCopied ==
    (mpc = "ok" /\ ~IsAligned(mb.ptr, minput.T)) => mem = BytesOf(minput.data)

\* C6: a failed mlock or munlock with OS error code e gives Err of the kind of
\* e: 1 EPERM, 11 EAGAIN, 12 ENOMEM, 14 EFAULT, 22 EINVAL, 38 ENOSYS.
KindOfErrno(e) ==
    CASE e = 1 -> "EPERM" [] e = 11 -> "EAGAIN" [] e = 12 -> "ENOMEM"
      [] e = 14 -> "EFAULT" [] e = 22 -> "EINVAL" [] e = 38 -> "ENOSYS"
LockErrorIsErrnoKind ==
    \A i \in 1..Len(lockLog) :
        lockLog[i].ret # 0 => lockLog[i].result = ErrResult(Named(KindOfErrno(lockLog[i].errno)))

\* C7: code 12 converts to ENOMEM in LockError and in AdviseError, a recognised
\* code to a named kind, any other code c to EUNIM(c).
LockCodes == {1, 4, 5, 11, 12, 14, 16, 22, 38}
LockKinds == {"EPERM", "EINTR", "EIO", "EAGAIN", "ENOMEM", "EFAULT", "EBUSY", "EINVAL", "ENOSYS"}
AdviseCodes == {12, 14, 22, 38}
AdviseKinds == {"EFAULT", "EINVAL", "ENOMEM", "ENOSYS"}
ErrorMapping ==
    conv # None =>
        LET c == conv.code
        IN /\ c = 12 => conv.lock = Named("ENOMEM") /\ conv.advise = Named("ENOMEM")
           /\ c \in LockCodes => \E k \in LockKinds : conv.lock = Named(k)
           /\ c \notin LockCodes => conv.lock = EUNIM(c)
           /\ c \in AdviseCodes => \E k \in AdviseKinds : conv.advise = Named(k)
           /\ c \notin AdviseCodes => conv.advise = EUNIM(c)
ErrorMappingWitness ==
    conv # None /\ conv.code = 999 /\ conv.lock = EUNIM(999) /\ conv.advise = EUNIM(999)

\* C8: a Locker's drop makes exactly one unlock attempt, the last call, on the
\* whole buffer (start, len * size_of T), and panics when the attempt fails,
\* whatever lock and unlock calls came before.
LockerDropUnlocksOnce ==
    LET drops == {i \in 1..Len(lockLog) : lockLog[i].by = "drop"}
    IN /\ lpc \in {"start", "alive"} => drops = {}
       /\ lpc \in {"dropped", "panic"} =>
            /\ drops = {Len(lockLog)}
            /\ LET d == lockLog[Len(lockLog)]
               IN /\ d.call = "munlock"
                  /\ d.ptr = lbuf.ptr /\ d.len = lbuf.len * lbuf.tsize
                  /\ d.ret # 0 <=> lpc = "panic"
LockerDropUnlocksOnceWitness ==
    /\ lpc = "panic" /\ Len(lockLog) = 3
    /\ lockLog[1].call = "mlock" /\ lockLog[1].ret = 0 /\ lockLog[3].len = 8

\* C9: an Adviser's drop gives the DontNeed hint exactly once, as the last hint,
\* on the whole buffer, and panics when it fails, whatever hints came before.
AdviserDropResetsOnce ==
    LET drops == {i \in 1..Len(adviseLog) : adviseLog[i].by = "drop"}
    IN /\ apc \in {"start", "alive"} => drops = {}
       /\ apc \in {"dropped", "panic"} =>
            /\ drops = {Len(adviseLog)}
            /\ LET d == adviseLog[Len(adviseLog)]
               IN /\ d.advice = 4
                  /\ d.ptr = abuf.ptr /\ d.len = abuf.len * abuf.tsize
                  /\ d.ret # 0 <=> apc = "panic"
AdviserDropResetsOnceWitness ==
    /\ apc = "dropped" /\ Len(adviseLog) = 2
    /\ adviseLog[1].advice = 3 /\ adviseLog[1].ret = 0 /\ adviseLog[2].len = 8

\* C10: a MappedBuffer's size is non-zero, a multiple of size_of T, the input's
\* length times size_of T, and the length given to mmap and to munmap; receive()
\* returns size / size_of T elements, which lie within the mapped range.
MappedBufferSize ==
    mb # None =>
        /\ mb.size > 0
        /\ mb.size = Len(minput.data) * minput.T.size
        /\ mb.size % minput.T.size = 0
        /\ \A i \in 1..Len(mmapLog) : mmapLog[i].len = mb.size
        /\ \A i \in 1..Len(munmapLog) : munmapLog[i].len = mb.size
        /\ (mpc = "ok" /\ view.called) =>
            /\ Len(view.slice) * minput.T.size = mb.size
            /\ Len(view.slice) * minput.T.size <= Len(mem)
MappedBufferSizeWitness ==
    mpc = "ok" /\ view.called /\ Len(view.slice) = 2 /\ minput.T = U16 /\ mb.size = 4

====
